---- MODULE Spec2Model ----
(***************************************************************************)
(* Model of the duplex audio pipeline of the conversational scheduler:     *)
(* the command-line pipeline (main.py) and the GUI worker pipeline         *)
(* (ui.py, AgentWorker).  Four cooperative tasks run on one asyncio event  *)
(* loop: listen_mic, send_to_gemini, play_speaker, receive_from_gemini.    *)
(* Code between two awaits that really suspend is one atomic action.       *)
(***************************************************************************)
EXTENDS Integers, Sequences, FiniteSets, TLC

\* ---------------------------------------------------------------- bounds
MaxMicFrames == 6      \* frames the audio source delivers in a run
MaxResponses == 3      \* inbound responses the session delivers in a run
MaxParts == 2          \* audio parts carried by one response
MaxChunks == 4         \* audio parts the session delivers in a run
MaxBatch == 2          \* function calls carried by one tool_call
MaxStops == 2          \* calls of AgentWorker.stop in a run

\* ------------------------------------------------------ program constants
MicQueueMaxSize == 5

Pipelines == {"cli", "gui"}

\* keys of tools_map
tools_map ==
    {"get_current_time", "list_upcoming_events", "check_specific_slot",
     "find_nearest_slots", "smart_check_availability", "book_meeting"}

\* tool names the engine is modelled to ask for: two registered ones and one
\* with no entry in tools_map
RequestedNames == {"check_specific_slot", "book_meeting", "cancel_meeting"}

\* the start_iso argument the engine passes, and the other one it may pass
\* where the start time matters
RequestedStart == "2026-01-05T17:00:00+05:30"
BookingStarts == {RequestedStart, "2026-01-05T17:30:00+05:30"}

\* What calling a registered handler can do: return a string (the calendar
\* tools catch their own faults and return "Error: ..." / "Booking failed:
\* ..." strings) or raise (func(**fc.args) with arguments that do not bind).
check_specific_slot ==
    {[kind |-> "return", value |-> "Available"],
     [kind |-> "return", value |-> "Conflict with: Standup"],
     [kind |-> "return", value |-> "Error: credentials.json not found!"]}

book_meeting ==
    {[kind |-> "return", value |-> "Meeting booked successfully"],
     [kind |-> "return", value |-> "Booking failed: credentials.json not found!"]}

\* what the smart_check_availability handler can return
smart_check_results ==
    {[kind |-> "return", value |-> "Available"],
     [kind |-> "return",
      value |-> "Busy. Alternatives: No free slots found in next 48 hours."]}

BindFailure == {[kind |-> "raise", value |-> "TypeError: unexpected keyword argument"]}

HandlerOutcomes(name) ==
    IF name = "check_specific_slot" THEN check_specific_slot \cup BindFailure
    ELSE IF name = "book_meeting" THEN book_meeting \cup BindFailure
    ELSE IF name = "smart_check_availability"
    THEN smart_check_results \cup BindFailure
    ELSE BindFailure

\* the returned strings that report no failure
ReturnedOnSuccess == {"Available", "Meeting booked successfully"}

NoOutcome == [kind |-> "none", value |-> ""]

\* ------------------------------------------------------------ helpers
Range(s) == {s[i] : i \in 1..Len(s)}

StrictlyIncreasing(s) == \A i, j \in 1..Len(s) : i < j => s[i] < s[j]

\* engine-assigned request ids: unique per request
CallId(r, i) == r * (MaxBatch + 1) + i

\* the function_calls of a tool_call, given the requested names
FunctionCalls(r, names, start) ==
    [i \in 1..Len(names) |->
        [id |-> CallId(r, i), name |-> names[i], start_iso |-> start]]

NameSeqs == UNION {[1..n -> RequestedNames] : n \in 1..MaxBatch}

\* an inbound response: server_content.interrupted, the number of audio
\* parts of server_content.model_turn, tool_call (<<>> when absent) and the
\* start_iso argument of its function calls
Responses ==
    {rp \in [interrupted : BOOLEAN, parts : 0..MaxParts,
             tool_call : NameSeqs \cup {<<>>}, start_iso : {RequestedStart}] :
        rp.interrupted \/ rp.parts > 0 \/ rp.tool_call # <<>>}

\* the responses that carry no tool_call
AudioResponses == {rp \in Responses : rp.tool_call = <<>>}

\* the responses of an uninterrupted turn with at most one audio part and
\* one function call
MixedResponses ==
    {rp \in Responses :
        ~rp.interrupted /\ rp.parts <= 1 /\ Len(rp.tool_call) <= 1}

\* the responses that carry no audio part
ToolResponses == {rp \in Responses : rp.parts = 0}

\* the responses that carry one call of a slot check or of book_meeting, for
\* one of two start times
BookingResponses ==
    [interrupted : {FALSE}, parts : {0},
     tool_call : {<<"check_specific_slot">>, <<"smart_check_availability">>,
                  <<"book_meeting">>},
     start_iso : BookingStarts]

VARIABLES
    pipeline,            \* which entry point runs: main.py or ui.py
    stop_event,          \* AgentWorker.stop_event
    audio_queue_mic,     \* capture queue, asyncio.Queue(maxsize=5)
    audio_queue_output,  \* playback queue, asyncio.Queue()
    micPc, micFrame,     \* listen_mic position and the frame it holds
    nRead,               \* frames read from the audio source so far
    sendPc, sendFrame,   \* send_to_gemini position and the blob it holds
    sent,                \* frames passed to session.send_realtime_input
    spkPc,               \* play_speaker position
    written,             \* frames whose stream.write has begun
    recvPc,              \* receive_from_gemini position
    respNo,              \* responses received so far
    nChunks,             \* audio parts received so far; part k is chunk k
    batch,               \* response.tool_call.function_calls being handled
    idx,                 \* position of the for loop over function_calls
    function_responses,  \* the list built by the for loop
    toolSends,           \* send_tool_response calls made for the batch
    sentResponses,       \* function_responses passed to the last such call
    outcomes,            \* what each handler invocation of the batch did
    status,              \* last status_changed emitted (GUI)
    enq,                 \* every chunk put on the playback queue, in order
    drained,             \* chunks discarded by the interruption handler
    lastDrain,           \* nChunks when the last interruption was handled
    runPc,               \* run_agent / AgentWorker.run position
    micStream,           \* the input stream of listen_mic
    spkStream,           \* the output stream of play_speaker
    error_occurred,      \* error_occurred emitted (GUI) or raised to the caller
    stopCalls,           \* calls of AgentWorker.stop so far
    stopRaised,          \* the last call of AgentWorker.stop raised
    deviceError,         \* a device open, read or write has failed
    recvRaised,          \* iterating session.receive() has raised
    statusBy,            \* the task that emitted the last status_changed
    spkStatus,           \* last status_changed emitted by play_speaker
    skipped,             \* the last response was an interruption that also
                         \* carried audio parts or a tool_call
    checkedFree,         \* start times a slot check has returned "Available" for
    uncheckedBooking,    \* book_meeting was called for a start time not in
                         \* checkedFree
    request,             \* arguments and calendar of a scheduler tool call
    graphPc,             \* node of the scheduler_logic workflow being run
    state_status,        \* SchedulerState.status
    final_response,      \* SchedulerState.final_response
    nCheck,              \* calls of tools.check_specific_slot by the workflow
    nSearch,             \* calls of tools.find_nearest_slots by the workflow
    free_slots,          \* free_slots of the last find_nearest_slots call
    alternatives         \* string returned by the last find_nearest_slots call

vars == <<pipeline, stop_event, audio_queue_mic, audio_queue_output, micPc,
          micFrame, nRead, sendPc, sendFrame, sent, spkPc, written, recvPc,
          respNo, nChunks, batch, idx, function_responses, toolSends,
          sentResponses, outcomes, status, enq, drained, lastDrain, runPc,
          micStream, spkStream, error_occurred, stopCalls, stopRaised,
          deviceError, recvRaised, statusBy, spkStatus, skipped,
          checkedFree, uncheckedBooking, request, graphPc, state_status,
          final_response, nCheck, nSearch, free_slots, alternatives>>

micVars == <<audio_queue_mic, micPc, micFrame, nRead, sendPc, sendFrame, sent>>
spkVars == <<spkPc, written>>
toolVars == <<batch, idx, function_responses, toolSends, sentResponses, outcomes>>
recvVars == <<recvPc, respNo, nChunks, enq, drained, lastDrain>>
lifeVars == <<runPc, micStream, spkStream, error_occurred, stopCalls,
              stopRaised, deviceError, recvRaised>>
uiVars == <<statusBy, spkStatus>>
ghostVars == <<skipped, checkedFree, uncheckedBooking>>
schedVars == <<request, graphPc, state_status, final_response, nCheck, nSearch,
               free_slots, alternatives>>
sessionVars == <<pipeline, stop_event, audio_queue_output, status, micVars,
                 spkVars, toolVars, recvVars, lifeVars, uiVars, ghostVars>>

\* ------------------------------------------------ tools.py on a calendar
\* Times are minutes since 2026-01-05T00:00 (a Monday) in USER_TIMEZONE.
SearchWindowHours == 48
MaxFreeSlots == 3
SlotStepMinutes == 30
BusinessOpenHour == 9
BusinessCloseHour == 18

MaxEvents == 1         \* events on the calendar
MaxStartSteps == 4     \* requested start times, half hours from 16:00

Pad2(n) == IF n < 10 THEN "0" \o ToString(n) ELSE ToString(n)

\* datetime.isoformat() of a timezone-aware datetime
isoformat(t) ==
    "2026-01-0" \o ToString(5 + (t \div 1440)) \o "T"
        \o Pad2((t % 1440) \div 60) \o ":" \o Pad2(t % 60) \o ":00+05:30"

Times == {SlotStepMinutes * k : k \in 0..192}

\* datetime.fromisoformat(s): the time s denotes, ValueError otherwise
ParsesIso(s) == \E t \in Times : isoformat(t) = s
fromisoformat(s) == CHOOSE t \in Times : isoformat(t) = s

\* current.hour
HourOf(t) == (t % 1440) \div 60

\* sep.join(strings)
RECURSIVE Join(_, _)
Join(strings, sep) ==
    IF strings = <<>> THEN ""
    ELSE IF Len(strings) = 1 THEN strings[1]
    ELSE strings[1] \o sep \o Join(Tail(strings), sep)

\* the events a calendar may hold; all-day events carry 'date', no 'dateTime'
EventChoices ==
    {[summary |-> "Standup", start |-> 1020, end |-> 1050, all_day |-> FALSE],
     [summary |-> "Review", start |-> 960, end |-> 1080, all_day |-> FALSE],
     [summary |-> "Dinner", start |-> 1080, end |-> 1140, all_day |-> FALSE],
     [summary |-> "Offsite", start |-> 0, end |-> 5760, all_day |-> FALSE],
     [summary |-> "Holiday", start |-> 1440, end |-> 2880, all_day |-> TRUE]}

Calendars == {c \in SUBSET EventChoices : Cardinality(c) <= MaxEvents}

StartTimes == {960 + SlotStepMinutes * k : k \in 0..MaxStartSteps}

\* a call of a scheduler tool: its arguments, the calendar it runs against,
\* and whether get_calendar_service finds credentials.json
Requests ==
    [start_iso : {isoformat(t) : t \in StartTimes} \cup {"tomorrow 5pm"},
     duration : {30, 60, 90},
     events : Calendars,
     service_ok : BOOLEAN]

NoRequest ==
    [start_iso |-> "", duration |-> 0, events |-> {}, service_ok |-> FALSE]

\* service.events().list(timeMin, timeMax): the events that end after
\* timeMin and start before timeMax
EventsBetween(events, timeMin, timeMax) ==
    {e \in events : e.end > timeMin /\ e.start < timeMax}

\* the orders the items of a list result may come in
Orders(S) == {f \in [1..Cardinality(S) -> S] : Range(f) = S}

\* tools.check_specific_slot: the strings it can return
tools_check_specific_slot(req) ==
    IF ~req.service_ok THEN {"Error: credentials.json not found!"}
    ELSE IF ~ParsesIso(req.start_iso)
    THEN {"Error: Invalid isoformat string: '" \o req.start_iso \o "'"}
    ELSE LET start_dt == fromisoformat(req.start_iso)
             end_dt == start_dt + req.duration
             events == EventsBetween(req.events, start_dt, end_dt)
         IN IF events = {} THEN {"Available"}
            ELSE {"Conflict with: "
                      \o Join([i \in 1..Len(o) |-> o[i].summary], ", ")
                  : o \in Orders(events)}

busy_times_started_in_window(req, start_dt) ==
    {e \in req.events :
        /\ e.start >= start_dt
        /\ e.start < start_dt + SearchWindowHours * 60
        /\ ~e.all_day}

\* busy_times: the (start, end) of the events that carry dateTime
busy_times(req, start_dt) ==
    {e \in EventsBetween(req.events, start_dt,
                         start_dt + SearchWindowHours * 60) : ~e.all_day}

\* the while loop of find_nearest_slots
RECURSIVE ScanSlots(_, _, _, _, _)
ScanSlots(current, free, end_search_dt, duration, busy) ==
    IF ~(Len(free) < MaxFreeSlots /\ current < end_search_dt) THEN free
    ELSE LET slot_end == current + duration
             is_busy == \E b \in busy : current < b.end /\ slot_end > b.start
             found == IF ~is_busy /\ BusinessOpenHour <= HourOf(current)
                                  /\ HourOf(current) < BusinessCloseHour
                      THEN Append(free, current) ELSE free
         IN ScanSlots(current + SlotStepMinutes, found, end_search_dt,
                      duration, busy)

\* free_slots of tools.find_nearest_slots, as times (<<>> when it raises)
find_free_slots(req) ==
    IF ~req.service_ok \/ ~ParsesIso(req.start_iso) THEN <<>>
    ELSE LET start_dt == fromisoformat(req.start_iso)
         IN ScanSlots(start_dt, <<>>, start_dt + SearchWindowHours * 60,
                      req.duration, busy_times(req, start_dt))

\* tools.find_nearest_slots: the string it returns
tools_find_nearest_slots(req) ==
    IF ~req.service_ok THEN "Error: credentials.json not found!"
    ELSE IF ~ParsesIso(req.start_iso)
    THEN "Error: Invalid isoformat string: '" \o req.start_iso \o "'"
    ELSE LET free == find_free_slots(req)
         IN IF free = <<>> THEN "No free slots found in next 48 hours."
            ELSE "Available slots: "
                     \o Join([i \in 1..Len(free) |-> isoformat(free[i])], ", ")

\* ---------------------------------------------------- scheduler_logic.py
\* no workflow is running
SchedulerIdle ==
    /\ request = NoRequest
    /\ graphPc = "none"
    /\ state_status = "" /\ final_response = ""
    /\ nCheck = 0 /\ nSearch = 0
    /\ free_slots = <<>> /\ alternatives = ""

route_after_check_inverted(st) ==
    IF st = "Available" THEN "suggest_alternatives" ELSE "available"

\* the conditional edge after the check node
route_after_check(st) ==
    IF st = "Available" THEN "available" ELSE "suggest_alternatives"

\* smart_check_availability: app.invoke enters the workflow at "check"
smart_check_availability ==
    /\ graphPc = "idle"
    /\ graphPc' = "check"
    /\ UNCHANGED <<request, state_status, final_response, nCheck, nSearch,
                   free_slots, alternatives>>
    /\ UNCHANGED sessionVars

check_availability_node ==
    /\ graphPc = "check"
    /\ \E st \in tools_check_specific_slot(request) :
          /\ state_status' = st
          /\ graphPc' = route_after_check(st)
    /\ nCheck' = nCheck + 1
    /\ UNCHANGED <<request, final_response, nSearch, free_slots, alternatives>>
    /\ UNCHANGED sessionVars

handle_available_node ==
    /\ graphPc = "available"
    /\ final_response' = "Available"
    /\ graphPc' = "END"
    /\ UNCHANGED <<request, state_status, nCheck, nSearch, free_slots,
                   alternatives>>
    /\ UNCHANGED sessionVars

find_alternative_node ==
    /\ graphPc = "suggest_alternatives"
    /\ alternatives' = tools_find_nearest_slots(request)
    /\ free_slots' = find_free_slots(request)
    /\ nSearch' = nSearch + 1
    /\ final_response' = "Busy. Alternatives: " \o alternatives'
    /\ graphPc' = "END"
    /\ UNCHANGED <<request, state_status, nCheck>>
    /\ UNCHANGED sessionVars

\* find_nearest_slots called as a tool of its own
find_nearest_slots ==
    /\ graphPc = "idle"
    /\ alternatives' = tools_find_nearest_slots(request)
    /\ free_slots' = find_free_slots(request)
    /\ graphPc' = "returned"
    /\ UNCHANGED <<request, state_status, final_response, nCheck, nSearch>>
    /\ UNCHANGED sessionVars

\* The handlers are called synchronously inside receive_from_gemini: while
\* the for loop over function_calls runs, no other task of the loop runs.
LoopFree == recvPc \notin {"dispatch", "hung"}

\* the event loop runs the four tasks: the session is connected and neither
\* gather nor the loop has ended
Running == runPc = "active"

Init ==
    /\ pipeline \in Pipelines
    /\ stop_event = FALSE
    /\ audio_queue_mic = <<>>
    /\ audio_queue_output = <<>>
    /\ micPc = "read" /\ micFrame = 0 /\ nRead = 0
    /\ sendPc = "get" /\ sendFrame = 0 /\ sent = <<>>
    /\ spkPc = "get" /\ written = <<>>
    /\ recvPc = "recv" /\ respNo = 0 /\ nChunks = 0
    /\ batch = <<>> /\ idx = 0 /\ function_responses = <<>>
    /\ toolSends = 0 /\ sentResponses = <<>> /\ outcomes = <<>>
    /\ status = IF pipeline = "gui" THEN "listening" ELSE "none"
    /\ enq = <<>> /\ drained = {} /\ lastDrain = 0
    /\ runPc = "active" /\ micStream = "open" /\ spkStream = "open"
    /\ error_occurred = FALSE /\ stopCalls = 0 /\ stopRaised = FALSE
    /\ deviceError = FALSE /\ recvRaised = FALSE
    /\ statusBy = IF pipeline = "gui" THEN "run" ELSE "none"
    /\ spkStatus = "none"
    /\ skipped = FALSE /\ checkedFree = {} /\ uncheckedBooking = FALSE
    /\ SchedulerIdle

\* a session object before run() has connected
SessionNotStarted ==
    /\ pipeline \in Pipelines
    /\ stop_event = FALSE
    /\ audio_queue_mic = <<>>
    /\ audio_queue_output = <<>>
    /\ micPc = "idle" /\ micFrame = 0 /\ nRead = 0
    /\ sendPc = "idle" /\ sendFrame = 0 /\ sent = <<>>
    /\ spkPc = "idle" /\ written = <<>>
    /\ recvPc = "idle" /\ respNo = 0 /\ nChunks = 0
    /\ batch = <<>> /\ idx = 0 /\ function_responses = <<>>
    /\ toolSends = 0 /\ sentResponses = <<>> /\ outcomes = <<>>
    /\ status = "none"
    /\ enq = <<>> /\ drained = {} /\ lastDrain = 0
    /\ runPc = "connecting" /\ micStream = "none" /\ spkStream = "none"
    /\ error_occurred = FALSE /\ stopCalls = 0 /\ stopRaised = FALSE
    /\ deviceError = FALSE /\ recvRaised = FALSE
    /\ statusBy = "none"
    /\ spkStatus = "none"
    /\ skipped = FALSE /\ checkedFree = {} /\ uncheckedBooking = FALSE

\* the state when run_agent / AgentWorker.run is entered: the session is
\* being connected and no task exists yet
InitConnecting == SessionNotStarted /\ SchedulerIdle


\* ------------------------------------------------------- asyncio.Queue
full_off_by_one(q) == Len(q) > MicQueueMaxSize

full(q) == Len(q) >= MicQueueMaxSize

put_nowait_front(q, item) == <<item>> \o q

put_nowait(q, item) == Append(q, item)

\* get_nowait: the item returned and the queue left
get_item_last(q) == q[Len(q)]

get_item(q) == Head(q)

get_rest_two(q) == IF Len(q) >= 2 THEN Tail(Tail(q)) ELSE Tail(q)

get_rest(q) == Tail(q)

\* while not audio_queue_output.empty(): audio_queue_output.get_nowait()
clear_queue_keep_last(q) == IF Len(q) <= 1 THEN q ELSE <<q[Len(q)]>>

clear_queue_once(q) == IF q = <<>> THEN q ELSE Tail(q)

clear_queue_skip(q) == q

RECURSIVE clear_queue(_)
clear_queue(q) == IF q = <<>> THEN q ELSE clear_queue(get_rest(q))

\* ------------------------------------------------------------ listen_mic
\* stream.read returns a frame; main.py awaits put (suspends while the queue
\* is full), ui.py puts only when the queue is not full and otherwise goes
\* on to the next read.
listen_mic_read ==
    /\ Running
    /\ LoopFree
    /\ micPc = "read"
    /\ nRead < MaxMicFrames \/ (pipeline = "gui" /\ stop_event)
    /\ nRead' = nRead + 1
    /\ IF pipeline = "cli"
       THEN IF full(audio_queue_mic)
            THEN /\ micPc' = "put"
                 /\ micFrame' = nRead + 1
                 /\ UNCHANGED audio_queue_mic
            ELSE /\ audio_queue_mic' = put_nowait(audio_queue_mic, nRead + 1)
                 /\ UNCHANGED <<micPc, micFrame>>
       ELSE /\ audio_queue_mic' =
                 IF ~full(audio_queue_mic)
                 THEN put_nowait(audio_queue_mic, nRead + 1)
                 ELSE audio_queue_mic
            /\ micPc' = IF stop_event THEN "done" ELSE "read"
            /\ UNCHANGED micFrame
    /\ UNCHANGED <<pipeline, stop_event, audio_queue_output, sendPc, sendFrame,
                   sent, status>>
    /\ UNCHANGED <<spkVars, recvVars, toolVars>>
    /\ micStream' = IF micPc' = "done" THEN "closed" ELSE micStream
    /\ UNCHANGED <<runPc, spkStream, error_occurred, stopCalls, stopRaised,
                   deviceError, recvRaised, uiVars>>
    /\ UNCHANGED <<ghostVars, schedVars>>

\* main.py: the suspended put resumes once the queue has room
listen_mic_put ==
    /\ Running
    /\ LoopFree
    /\ micPc = "put"
    /\ ~full(audio_queue_mic)
    /\ audio_queue_mic' = put_nowait(audio_queue_mic, micFrame)
    /\ micPc' = "read"
    /\ micFrame' = 0
    /\ UNCHANGED <<pipeline, stop_event, audio_queue_output, nRead, sendPc,
                   sendFrame, sent, status>>
    /\ UNCHANGED <<spkVars, recvVars, toolVars>>
    /\ UNCHANGED <<lifeVars, uiVars>>
    /\ UNCHANGED <<ghostVars, schedVars>>

\* -------------------------------------------------------- send_to_gemini
send_to_gemini_get ==
    /\ Running
    /\ LoopFree
    /\ sendPc = "get"
    /\ audio_queue_mic # <<>>
    /\ sendFrame' = get_item(audio_queue_mic)
    /\ audio_queue_mic' = get_rest(audio_queue_mic)
    /\ sendPc' = "send"
    /\ UNCHANGED <<pipeline, stop_event, audio_queue_output, micPc, micFrame,
                   nRead, sent, status>>
    /\ UNCHANGED <<spkVars, recvVars, toolVars>>
    /\ UNCHANGED <<lifeVars, uiVars>>
    /\ UNCHANGED <<ghostVars, schedVars>>

\* session.send_realtime_input returns; ui.py then tests stop_event
send_to_gemini_send ==
    /\ Running
    /\ LoopFree
    /\ sendPc = "send"
    /\ sent' = Append(sent, sendFrame)
    /\ sendFrame' = 0
    /\ sendPc' = IF pipeline = "gui" /\ stop_event THEN "done" ELSE "get"
    /\ UNCHANGED <<pipeline, stop_event, audio_queue_mic, audio_queue_output,
                   micPc, micFrame, nRead, status>>
    /\ UNCHANGED <<spkVars, recvVars, toolVars>>
    /\ UNCHANGED <<lifeVars, uiVars>>
    /\ UNCHANGED <<ghostVars, schedVars>>

\* ui.py: wait_for(get, timeout=1.0) times out on the empty queue and the
\* while test sees stop_event set
send_to_gemini_timeout ==
    /\ Running
    /\ LoopFree
    /\ pipeline = "gui"
    /\ sendPc = "get"
    /\ audio_queue_mic = <<>>
    /\ stop_event
    /\ sendPc' = "done"
    /\ UNCHANGED <<pipeline, stop_event, audio_queue_mic, audio_queue_output,
                   micPc, micFrame, nRead, sendFrame, sent, status>>
    /\ UNCHANGED <<spkVars, recvVars, toolVars>>
    /\ UNCHANGED <<lifeVars, uiVars>>
    /\ UNCHANGED <<ghostVars, schedVars>>

\* ---------------------------------------------------------- play_speaker
\* the task suspended in get on the empty queue resumes after a put: get
\* returns the chunk and stream.write is handed to a thread in the same
\* step (no suspension in between); ui.py emits "speaking" first
play_speaker_get_silent ==
    /\ Running
    /\ LoopFree
    /\ spkPc = "get"
    /\ audio_queue_output # <<>>
    /\ written' = Append(written, get_item(audio_queue_output))
    /\ audio_queue_output' = get_rest(audio_queue_output)
    /\ spkPc' = "write"
    /\ UNCHANGED <<pipeline, stop_event, status>>
    /\ UNCHANGED <<micVars, recvVars, toolVars>>
    /\ UNCHANGED <<lifeVars, uiVars>>
    /\ UNCHANGED <<ghostVars, schedVars>>

play_speaker_get ==
    /\ Running
    /\ LoopFree
    /\ spkPc = "get"
    /\ audio_queue_output # <<>>
    /\ written' = Append(written, get_item(audio_queue_output))
    /\ audio_queue_output' = get_rest(audio_queue_output)
    /\ spkPc' = "write"
    /\ status' = IF pipeline = "gui" THEN "speaking" ELSE status
    /\ UNCHANGED <<pipeline, stop_event>>
    /\ UNCHANGED <<micVars, recvVars, toolVars>>
    /\ statusBy' = IF pipeline = "gui" THEN "play" ELSE statusBy
    /\ spkStatus' = IF pipeline = "gui" THEN "speaking" ELSE spkStatus
    /\ UNCHANGED lifeVars
    /\ UNCHANGED <<ghostVars, schedVars>>

\* stream.write returns; ui.py emits "listening" when the queue is empty and
\* then tests stop_event. The next get does not suspend when a chunk is
\* queued: the chunk is taken ("speaking" in ui.py) and handed to
\* stream.write in the same step; on the empty queue the task suspends.
play_speaker_write ==
    /\ Running
    /\ LoopFree
    /\ spkPc = "write"
    /\ LET stopping == pipeline = "gui" /\ stop_event
           more == audio_queue_output # <<>> /\ ~stopping
           emitted == IF pipeline # "gui" THEN "none"
                      ELSE IF more THEN "speaking"
                      ELSE IF audio_queue_output = <<>> THEN "listening"
                      ELSE "none"
       IN /\ spkPc' = IF stopping THEN "done"
                      ELSE IF more THEN "write" ELSE "get"
          /\ written' = IF more
                        THEN Append(written, get_item(audio_queue_output))
                        ELSE written
          /\ audio_queue_output' = IF more THEN get_rest(audio_queue_output)
                                   ELSE audio_queue_output
          /\ status' = IF emitted # "none" THEN emitted ELSE status
          /\ statusBy' = IF emitted # "none" THEN "play" ELSE statusBy
          /\ spkStatus' = IF emitted # "none" THEN emitted ELSE spkStatus
          /\ spkStream' = IF stopping THEN "closed" ELSE spkStream
    /\ UNCHANGED <<pipeline, stop_event>>
    /\ UNCHANGED <<micVars, recvVars, toolVars>>
    /\ UNCHANGED <<runPc, micStream, error_occurred, stopCalls, stopRaised,
                   deviceError, recvRaised>>
    /\ UNCHANGED <<ghostVars, schedVars>>

\* -------------------------------------------------- receive_from_gemini
FunctionResponse(fc, key, value) ==
    [id |-> fc.id, name |-> fc.name, response |-> [key |-> key, value |-> value]]

\* body of the for loop over function_calls: func = tools_map.get(fc.name);
\* a handler that returns gives {"result": result}, one that raises gives
\* {"error": str(e)}, a name with no handler appends nothing
DispatchOne_swallow(fc, outcome, frs) ==
    IF fc.name \in tools_map /\ outcome.kind = "return"
    THEN Append(frs, FunctionResponse(fc, "result", outcome.value))
    ELSE frs

DispatchOne_errstr(fc, outcome, frs) ==
    IF fc.name \in tools_map
    THEN IF outcome.kind = "return" /\ outcome.value \in ReturnedOnSuccess
         THEN Append(frs, FunctionResponse(fc, "result", outcome.value))
         ELSE Append(frs, FunctionResponse(fc, "error", outcome.value))
    ELSE frs

DispatchOne(fc, outcome, frs) ==
    IF fc.name \in tools_map
    THEN IF outcome.kind = "return"
         THEN Append(frs, FunctionResponse(fc, "result", outcome.value))
         ELSE Append(frs, FunctionResponse(fc, "error", outcome.value))
    ELSE frs

\* the audio parts of one response, put on the playback queue in order
RECURSIVE PutParts(_, _, _)
PutParts(q, first, n) ==
    IF n = 0 THEN q ELSE PutParts(put_nowait(q, first), first + 1, n - 1)

receive_response_no_continue(RS) ==
    /\ Running
    /\ recvPc = "recv"
    /\ respNo < MaxResponses
    /\ ~(pipeline = "gui" /\ stop_event)
    /\ \E rp \in RS :
        /\ respNo' = respNo + 1
        /\ skipped' = (rp.interrupted /\ (rp.parts > 0 \/ rp.tool_call # <<>>))
        /\ nChunks + rp.parts <= MaxChunks
        /\ IF rp.interrupted
           THEN /\ audio_queue_output' =
                     PutParts(clear_queue(audio_queue_output), nChunks + 1,
                              rp.parts)
                /\ drained' = drained \cup Range(audio_queue_output)
                /\ lastDrain' = nChunks
                /\ nChunks' = nChunks + rp.parts
                /\ enq' = enq \o [j \in 1..rp.parts |-> nChunks + j]
                /\ batch' = FunctionCalls(respNo + 1, rp.tool_call, rp.start_iso)
                /\ idx' = IF rp.tool_call # <<>> THEN 1 ELSE 0
                /\ function_responses' = <<>>
                /\ toolSends' = 0 /\ sentResponses' = <<>> /\ outcomes' = <<>>
                /\ recvPc' = IF rp.tool_call # <<>> THEN "dispatch" ELSE "recv"
                /\ status' = IF rp.tool_call # <<>> /\ pipeline = "gui"
                             THEN "processing" ELSE status
           ELSE /\ audio_queue_output' =
                     PutParts(audio_queue_output, nChunks + 1, rp.parts)
                /\ nChunks' = nChunks + rp.parts
                /\ enq' = enq \o [j \in 1..rp.parts |-> nChunks + j]
                /\ batch' = FunctionCalls(respNo + 1, rp.tool_call, rp.start_iso)
                /\ idx' = IF rp.tool_call # <<>> THEN 1 ELSE 0
                /\ function_responses' = <<>>
                /\ toolSends' = 0 /\ sentResponses' = <<>> /\ outcomes' = <<>>
                /\ recvPc' = IF rp.tool_call # <<>> THEN "dispatch" ELSE "recv"
                /\ status' = IF rp.tool_call # <<>> /\ pipeline = "gui"
                             THEN "processing" ELSE status
                /\ UNCHANGED <<drained, lastDrain>>
    /\ UNCHANGED <<pipeline, stop_event>>
    /\ UNCHANGED <<micVars, spkVars>>
    /\ statusBy' = IF pipeline = "gui" /\ recvPc' = "dispatch"
                   THEN "recv" ELSE statusBy
    /\ UNCHANGED <<lifeVars, spkStatus>>
    /\ UNCHANGED <<checkedFree, uncheckedBooking, schedVars>>

\* one response of the turn is handled up to its first suspension
receive_response(RS) ==
    /\ Running
    /\ recvPc = "recv"
    /\ respNo < MaxResponses
    /\ ~(pipeline = "gui" /\ stop_event)
    /\ \E rp \in RS :
        /\ respNo' = respNo + 1
        /\ skipped' = (rp.interrupted /\ (rp.parts > 0 \/ rp.tool_call # <<>>))
        /\ nChunks + rp.parts <= MaxChunks
        /\ IF rp.interrupted
           THEN /\ audio_queue_output' = clear_queue(audio_queue_output)
                /\ drained' = drained \cup
                       (Range(audio_queue_output) \ Range(audio_queue_output'))
                /\ lastDrain' = nChunks
                /\ batch' = <<>> /\ idx' = 0 /\ function_responses' = <<>>
                /\ toolSends' = 0 /\ sentResponses' = <<>> /\ outcomes' = <<>>
                /\ UNCHANGED <<recvPc, nChunks, enq, status>>
           ELSE /\ audio_queue_output' =
                     PutParts(audio_queue_output, nChunks + 1, rp.parts)
                /\ nChunks' = nChunks + rp.parts
                /\ enq' = enq \o [j \in 1..rp.parts |-> nChunks + j]
                /\ batch' = FunctionCalls(respNo + 1, rp.tool_call, rp.start_iso)
                /\ idx' = IF rp.tool_call # <<>> THEN 1 ELSE 0
                /\ function_responses' = <<>>
                /\ toolSends' = 0 /\ sentResponses' = <<>> /\ outcomes' = <<>>
                /\ recvPc' = IF rp.tool_call # <<>> THEN "dispatch" ELSE "recv"
                /\ status' = IF rp.tool_call # <<>> /\ pipeline = "gui"
                             THEN "processing" ELSE status
                /\ UNCHANGED <<drained, lastDrain>>
    /\ UNCHANGED <<pipeline, stop_event>>
    /\ UNCHANGED <<micVars, spkVars>>
    /\ statusBy' = IF pipeline = "gui" /\ recvPc' = "dispatch"
                   THEN "recv" ELSE statusBy
    /\ UNCHANGED <<lifeVars, spkStatus>>
    /\ UNCHANGED <<checkedFree, uncheckedBooking, schedVars>>

\* the tools the system instruction names as the availability check
AvailabilityChecks == {"smart_check_availability", "check_specific_slot"}

receive_dispatch_retry ==
    /\ runPc \in {"active", "cancelling"}
    /\ recvPc = "dispatch"
    /\ LET fc == batch[idx] IN
       \E o \in (IF fc.name \in tools_map
                 THEN HandlerOutcomes(fc.name) ELSE {NoOutcome}) :
          /\ function_responses' = DispatchOne(fc, o, function_responses)
          /\ outcomes' = Append(outcomes, o)
          /\ idx' = IF o.kind = "raise" THEN idx ELSE idx + 1
          /\ recvPc' = IF idx' <= Len(batch) THEN "dispatch"
                       ELSE IF function_responses' # <<>> THEN "sendtool"
                       ELSE "recv"
          /\ checkedFree' =
                IF /\ fc.name \in AvailabilityChecks
                   /\ o = [kind |-> "return", value |-> "Available"]
                THEN checkedFree \cup {fc.start_iso} ELSE checkedFree
          /\ uncheckedBooking' =
                (\/ uncheckedBooking
                 \/ /\ fc.name = "book_meeting" /\ o.kind = "return"
                    /\ fc.start_iso \notin checkedFree)
    /\ UNCHANGED <<pipeline, stop_event, audio_queue_output, batch, toolSends,
                   sentResponses, respNo, nChunks, enq, drained, lastDrain,
                   status>>
    /\ UNCHANGED <<micVars, spkVars>>
    /\ UNCHANGED <<lifeVars, uiVars>>
    /\ UNCHANGED <<skipped, schedVars>>

\* one iteration of the for loop: the handler is called on the loop's thread;
\* checkedFree and uncheckedBooking record what the handlers were called for
receive_dispatch ==
    /\ runPc \in {"active", "cancelling"}
    /\ recvPc = "dispatch"
    /\ LET fc == batch[idx] IN
       \E o \in (IF fc.name \in tools_map
                 THEN HandlerOutcomes(fc.name) ELSE {NoOutcome}) :
          /\ function_responses' = DispatchOne(fc, o, function_responses)
          /\ outcomes' = Append(outcomes, o)
          /\ idx' = idx + 1
          /\ recvPc' = IF idx < Len(batch) THEN "dispatch"
                       ELSE IF function_responses' # <<>> THEN "sendtool"
                       ELSE "recv"
          /\ checkedFree' =
                IF /\ fc.name \in AvailabilityChecks
                   /\ o = [kind |-> "return", value |-> "Available"]
                THEN checkedFree \cup {fc.start_iso} ELSE checkedFree
          /\ uncheckedBooking' =
                (\/ uncheckedBooking
                 \/ /\ fc.name = "book_meeting" /\ o.kind = "return"
                    /\ fc.start_iso \notin checkedFree)
    /\ UNCHANGED <<pipeline, stop_event, audio_queue_output, batch, toolSends,
                   sentResponses, respNo, nChunks, enq, drained, lastDrain,
                   status>>
    /\ UNCHANGED <<micVars, spkVars>>
    /\ UNCHANGED <<lifeVars, uiVars>>
    /\ UNCHANGED <<skipped, schedVars>>

\* the handler called by func(**fc.args) does not return: the calendar
\* request it makes (tools.py, ...execute()) has no deadline and the call
\* is made on the loop's thread, under no wait_for
receive_handler_hangs ==
    /\ runPc \in {"active", "cancelling"}
    /\ recvPc = "dispatch"
    /\ batch[idx].name \in tools_map
    /\ recvPc' = "hung"
    /\ UNCHANGED <<pipeline, stop_event, audio_queue_output, respNo, nChunks,
                   enq, drained, lastDrain, status>>
    /\ UNCHANGED <<micVars, spkVars, toolVars>>
    /\ UNCHANGED <<lifeVars, uiVars>>
    /\ UNCHANGED <<ghostVars, schedVars>>

\* await session.send_tool_response(function_responses=...) returns;
\* ui.py then emits "listening"
receive_send_tool_response ==
    /\ Running
    /\ recvPc = "sendtool"
    /\ toolSends' = toolSends + 1
    /\ sentResponses' = function_responses
    /\ recvPc' = "recv"
    /\ status' = IF pipeline = "gui" THEN "listening" ELSE status
    /\ UNCHANGED <<pipeline, stop_event, audio_queue_output, batch, idx,
                   function_responses, outcomes, respNo, nChunks, enq, drained,
                   lastDrain>>
    /\ UNCHANGED <<micVars, spkVars>>
    /\ statusBy' = IF pipeline = "gui" THEN "recv" ELSE statusBy
    /\ UNCHANGED <<lifeVars, spkStatus>>
    /\ UNCHANGED <<ghostVars, schedVars>>

\* await session.send_tool_response raises: except Exception ... break;
\* ui.py emits error_occurred first
receive_send_tool_response_fails ==
    /\ Running
    /\ recvPc = "sendtool"
    /\ recvPc' = "done"
    /\ error_occurred' = (pipeline = "gui" \/ error_occurred)
    /\ recvRaised' = TRUE
    /\ UNCHANGED <<pipeline, stop_event, audio_queue_output, respNo, nChunks,
                   enq, drained, lastDrain, status>>
    /\ UNCHANGED <<micVars, spkVars, toolVars>>
    /\ UNCHANGED <<runPc, micStream, spkStream, stopCalls, stopRaised,
                   deviceError, uiVars>>
    /\ UNCHANGED <<ghostVars, schedVars>>

\* iterating session.receive() raises: except Exception ... break; ui.py
\* emits error_occurred first
receive_error ==
    /\ Running
    /\ recvPc = "recv"
    /\ recvPc' = "done"
    /\ error_occurred' = (pipeline = "gui" \/ error_occurred)
    /\ recvRaised' = TRUE
    /\ UNCHANGED <<pipeline, stop_event, audio_queue_output, respNo, nChunks,
                   enq, drained, lastDrain, status>>
    /\ UNCHANGED <<micVars, spkVars, toolVars>>
    /\ UNCHANGED <<runPc, micStream, spkStream, stopCalls, stopRaised,
                   deviceError, uiVars>>
    /\ UNCHANGED <<ghostVars, schedVars>>

\* ui.py: "if self.stop_event.is_set(): return" and the while test
receive_stopped ==
    /\ Running
    /\ pipeline = "gui"
    /\ stop_event
    /\ recvPc = "recv"
    /\ recvPc' = "done"
    /\ UNCHANGED <<pipeline, stop_event, audio_queue_output, respNo, nChunks,
                   enq, drained, lastDrain, status>>
    /\ UNCHANGED <<micVars, spkVars, toolVars>>
    /\ UNCHANGED <<lifeVars, uiVars>>
    /\ UNCHANGED <<ghostVars, schedVars>>

\* ------------------------------------------------------ AgentWorker.stop
\* called on the GUI thread: sets stop_event, then the test of
\* self.mic_stream raises AttributeError (the attribute is never assigned),
\* so nothing after line 274 runs, on the first call and on every later one
stop ==
    /\ pipeline = "gui"
    /\ runPc # "stopped"
    /\ stopCalls < MaxStops
    /\ stopCalls' = stopCalls + 1
    /\ stop_event' = TRUE
    /\ stopRaised' = TRUE
    /\ UNCHANGED <<pipeline, audio_queue_output, status, runPc, micStream,
                   spkStream, error_occurred, deviceError, recvRaised, uiVars>>
    /\ UNCHANGED <<micVars, spkVars, recvVars, toolVars>>
    /\ UNCHANGED <<ghostVars, schedVars>>

\* ------------------------------------------------- run_loop / run_agent
\* a task that has ended: returned, raised, or was cancelled
Exited(pc) == pc \in {"done", "raised", "cancelled"}

AllExited ==
    Exited(micPc) /\ Exited(sendPc) /\ Exited(spkPc) /\ Exited(recvPc)

\* a task has ended with an exception other than CancelledError
SomeRaised == micPc = "raised" \/ spkPc = "raised"

\* the tasks are being cancelled: by gather after run_agent was cancelled,
\* or by asyncio.run after run_agent has ended
CancelPending ==
    pipeline = "cli" /\ runPc \in {"cancelling", "stopped"}

\* client.aio.live.connect succeeds: ui.py emits "listening", the four tasks
\* are created and run to their first suspension
connect_ok ==
    /\ runPc = "connecting"
    /\ runPc' = "active"
    /\ micPc' = "open"
    /\ spkPc' = "open"
    /\ sendPc' = IF pipeline = "gui" /\ stop_event THEN "done" ELSE "get"
    /\ recvPc' = IF pipeline = "gui" /\ stop_event THEN "done" ELSE "recv"
    /\ status' = IF pipeline = "gui" THEN "listening" ELSE status
    /\ statusBy' = IF pipeline = "gui" THEN "run" ELSE statusBy
    /\ UNCHANGED <<pipeline, stop_event, audio_queue_mic, audio_queue_output,
                   micFrame, nRead, sendFrame, sent, written, respNo, nChunks,
                   enq, drained, lastDrain, spkStatus>>
    /\ UNCHANGED <<micStream, spkStream, error_occurred, stopCalls, stopRaised,
                   deviceError, recvRaised>>
    /\ UNCHANGED toolVars
    /\ UNCHANGED <<ghostVars, schedVars>>

\* client.aio.live.connect raises: main.py lets the exception leave
\* asyncio.run; in ui.py it leaves run_until_complete and run(), so neither
\* error_occurred nor finished is emitted
connect_fail ==
    /\ runPc = "connecting"
    /\ runPc' = IF pipeline = "gui" THEN "crashed" ELSE "stopped"
    /\ error_occurred' = (pipeline = "cli")
    /\ UNCHANGED <<pipeline, stop_event, audio_queue_output, status>>
    /\ UNCHANGED <<micVars, spkVars, recvVars, toolVars, uiVars>>
    /\ UNCHANGED <<micStream, spkStream, stopCalls, stopRaised, deviceError,
                   recvRaised>>
    /\ UNCHANGED <<ghostVars, schedVars>>

\* pya.open returns the input stream; ui.py then tests stop_event
listen_mic_open ==
    /\ Running
    /\ LoopFree
    /\ micPc = "open"
    /\ micPc' = IF pipeline = "gui" /\ stop_event THEN "done" ELSE "read"
    /\ micStream' = IF pipeline = "gui" /\ stop_event THEN "closed" ELSE "open"
    /\ UNCHANGED <<pipeline, stop_event, audio_queue_mic, audio_queue_output,
                   micFrame, nRead, sendPc, sendFrame, sent, status>>
    /\ UNCHANGED <<spkVars, recvVars, toolVars, uiVars>>
    /\ UNCHANGED <<runPc, spkStream, error_occurred, stopCalls, stopRaised,
                   deviceError, recvRaised>>
    /\ UNCHANGED <<ghostVars, schedVars>>

\* get_default_input_device_info or pya.open raises: main.py opens outside
\* its try; ui.py catches, and its finally then reads the unbound "stream"
listen_mic_open_fails ==
    /\ Running
    /\ LoopFree
    /\ micPc = "open"
    /\ micPc' = "raised"
    /\ deviceError' = TRUE
    /\ UNCHANGED <<pipeline, stop_event, audio_queue_mic, audio_queue_output,
                   micFrame, nRead, sendPc, sendFrame, sent, status>>
    /\ UNCHANGED <<spkVars, recvVars, toolVars, uiVars>>
    /\ UNCHANGED <<runPc, micStream, spkStream, error_occurred, stopCalls,
                   stopRaised, recvRaised>>
    /\ UNCHANGED <<ghostVars, schedVars>>

\* stream.read raises: main.py has no handler for it and leaves the stream
\* open; ui.py prints and closes the stream in its finally
listen_mic_read_fails ==
    /\ Running
    /\ LoopFree
    /\ micPc = "read"
    /\ micPc' = IF pipeline = "gui" THEN "done" ELSE "raised"
    /\ micStream' = IF pipeline = "gui" THEN "closed" ELSE micStream
    /\ deviceError' = TRUE
    /\ UNCHANGED <<pipeline, stop_event, audio_queue_mic, audio_queue_output,
                   micFrame, nRead, sendPc, sendFrame, sent, status>>
    /\ UNCHANGED <<spkVars, recvVars, toolVars, uiVars>>
    /\ UNCHANGED <<runPc, spkStream, error_occurred, stopCalls, stopRaised,
                   recvRaised>>
    /\ UNCHANGED <<ghostVars, schedVars>>

\* pya.open returns the output stream; ui.py then tests stop_event
play_speaker_open ==
    /\ Running
    /\ LoopFree
    /\ spkPc = "open"
    /\ spkPc' = IF pipeline = "gui" /\ stop_event THEN "done" ELSE "get"
    /\ spkStream' = IF pipeline = "gui" /\ stop_event THEN "closed" ELSE "open"
    /\ UNCHANGED <<pipeline, stop_event, audio_queue_output, written, status>>
    /\ UNCHANGED <<micVars, recvVars, toolVars, uiVars>>
    /\ UNCHANGED <<runPc, micStream, error_occurred, stopCalls, stopRaised,
                   deviceError, recvRaised>>
    /\ UNCHANGED <<ghostVars, schedVars>>

\* pya.open raises: both files open the output stream outside the try
play_speaker_open_fails ==
    /\ Running
    /\ LoopFree
    /\ spkPc = "open"
    /\ spkPc' = "raised"
    /\ deviceError' = TRUE
    /\ UNCHANGED <<pipeline, stop_event, audio_queue_output, written, status>>
    /\ UNCHANGED <<micVars, recvVars, toolVars, uiVars>>
    /\ UNCHANGED <<runPc, micStream, spkStream, error_occurred, stopCalls,
                   stopRaised, recvRaised>>
    /\ UNCHANGED <<ghostVars, schedVars>>

\* stream.write raises: as for stream.read
play_speaker_write_fails ==
    /\ Running
    /\ LoopFree
    /\ spkPc = "write"
    /\ spkPc' = IF pipeline = "gui" THEN "done" ELSE "raised"
    /\ spkStream' = IF pipeline = "gui" THEN "closed" ELSE spkStream
    /\ deviceError' = TRUE
    /\ UNCHANGED <<pipeline, stop_event, audio_queue_output, written, status>>
    /\ UNCHANGED <<micVars, recvVars, toolVars, uiVars>>
    /\ UNCHANGED <<runPc, micStream, error_occurred, stopCalls, stopRaised,
                   recvRaised>>
    /\ UNCHANGED <<ghostVars, schedVars>>

\* ui.py: gather returns once the four tasks have returned, the session is
\* closed, run_until_complete returns and run() emits finished
run_finished ==
    /\ pipeline = "gui"
    /\ Running
    /\ LoopFree
    /\ micPc = "done" /\ sendPc = "done" /\ spkPc = "done" /\ recvPc = "done"
    /\ runPc' = "stopped"
    /\ UNCHANGED <<pipeline, stop_event, audio_queue_output, status>>
    /\ UNCHANGED <<micVars, spkVars, recvVars, toolVars, uiVars>>
    /\ UNCHANGED <<micStream, spkStream, error_occurred, stopCalls, stopRaised,
                   deviceError, recvRaised>>
    /\ UNCHANGED <<ghostVars, schedVars>>

\* ui.py: gather re-raises the exception of a task; run_loop catches only
\* CancelledError, so run() ends by the exception before finished.emit()
\* and the loop runs the other tasks no more
run_raised ==
    /\ pipeline = "gui"
    /\ Running
    /\ LoopFree
    /\ SomeRaised
    /\ runPc' = "crashed"
    /\ UNCHANGED <<pipeline, stop_event, audio_queue_output, status>>
    /\ UNCHANGED <<micVars, spkVars, recvVars, toolVars, uiVars>>
    /\ UNCHANGED <<micStream, spkStream, error_occurred, stopCalls, stopRaised,
                   deviceError, recvRaised>>
    /\ UNCHANGED <<ghostVars, schedVars>>

\* main.py: gather re-raises the exception of a task; run_agent catches
\* only CancelledError, so it ends by the exception, which leaves
\* asyncio.run after the tasks still pending were cancelled
run_agent_raised ==
    /\ pipeline = "cli"
    /\ Running
    /\ LoopFree
    /\ SomeRaised
    /\ runPc' = "stopped"
    /\ error_occurred' = TRUE
    /\ UNCHANGED <<pipeline, stop_event, audio_queue_output, status>>
    /\ UNCHANGED <<micVars, spkVars, recvVars, toolVars, uiVars>>
    /\ UNCHANGED <<micStream, spkStream, stopCalls, stopRaised, deviceError,
                   recvRaised>>
    /\ UNCHANGED <<ghostVars, schedVars>>

\* main.py: Ctrl-C cancels run_agent, and gather cancels the four tasks
cancel ==
    /\ pipeline = "cli"
    /\ Running
    /\ runPc' = "cancelling"
    /\ UNCHANGED <<pipeline, stop_event, audio_queue_output, status>>
    /\ UNCHANGED <<micVars, spkVars, recvVars, toolVars, uiVars>>
    /\ UNCHANGED <<micStream, spkStream, error_occurred, stopCalls, stopRaised,
                   deviceError, recvRaised>>
    /\ UNCHANGED <<ghostVars, schedVars>>

listen_mic_cancelled_at_read_only ==
    /\ CancelPending
    /\ LoopFree
    /\ micPc = "read"
    /\ micPc' = "done"
    /\ micStream' = "closed"
    /\ UNCHANGED <<pipeline, stop_event, audio_queue_mic, audio_queue_output,
                   micFrame, nRead, sendPc, sendFrame, sent, status>>
    /\ UNCHANGED <<spkVars, recvVars, toolVars, uiVars>>
    /\ UNCHANGED <<runPc, spkStream, error_occurred, stopCalls, stopRaised,
                   deviceError, recvRaised>>
    /\ UNCHANGED <<ghostVars, schedVars>>

\* main.py listen_mic: CancelledError is raised at the await the task is
\* suspended in; inside the try (read, put) the handler closes the stream
\* and the task returns, at the open nothing handles it
listen_mic_cancelled ==
    /\ CancelPending
    /\ LoopFree
    /\ micPc \in {"open", "read", "put"}
    /\ micPc' = IF micPc = "open" THEN "cancelled" ELSE "done"
    /\ micStream' = IF micPc = "open" THEN micStream ELSE "closed"
    /\ UNCHANGED <<pipeline, stop_event, audio_queue_mic, audio_queue_output,
                   micFrame, nRead, sendPc, sendFrame, sent, status>>
    /\ UNCHANGED <<spkVars, recvVars, toolVars, uiVars>>
    /\ UNCHANGED <<runPc, spkStream, error_occurred, stopCalls, stopRaised,
                   deviceError, recvRaised>>
    /\ UNCHANGED <<ghostVars, schedVars>>

\* main.py play_speaker: as listen_mic
play_speaker_cancelled ==
    /\ CancelPending
    /\ LoopFree
    /\ spkPc \in {"open", "get", "write"}
    /\ spkPc' = IF spkPc = "open" THEN "cancelled" ELSE "done"
    /\ spkStream' = IF spkPc = "open" THEN spkStream ELSE "closed"
    /\ UNCHANGED <<pipeline, stop_event, audio_queue_output, written, status>>
    /\ UNCHANGED <<micVars, recvVars, toolVars, uiVars>>
    /\ UNCHANGED <<runPc, micStream, error_occurred, stopCalls, stopRaised,
                   deviceError, recvRaised>>
    /\ UNCHANGED <<ghostVars, schedVars>>

\* main.py send_to_gemini has no handler: the task ends cancelled
send_to_gemini_cancelled ==
    /\ CancelPending
    /\ LoopFree
    /\ sendPc \in {"get", "send"}
    /\ sendPc' = "cancelled"
    /\ UNCHANGED <<pipeline, stop_event, audio_queue_mic, audio_queue_output,
                   micPc, micFrame, nRead, sendFrame, sent, status>>
    /\ UNCHANGED <<spkVars, recvVars, toolVars, uiVars, lifeVars>>
    /\ UNCHANGED <<ghostVars, schedVars>>

\* main.py receive_from_gemini: "except Exception" does not catch
\* CancelledError, the task ends cancelled at its next await
receive_cancelled ==
    /\ CancelPending
    /\ recvPc \in {"recv", "sendtool"}
    /\ recvPc' = "cancelled"
    /\ UNCHANGED <<pipeline, stop_event, audio_queue_output, respNo, nChunks,
                   enq, drained, lastDrain, status>>
    /\ UNCHANGED <<micVars, spkVars, toolVars, uiVars, lifeVars>>
    /\ UNCHANGED <<ghostVars, schedVars>>

\* main.py: gather ends once the four cancelled tasks have ended; run_agent
\* catches the CancelledError, the session is closed and run_agent returns
run_agent_returns ==
    /\ pipeline = "cli"
    /\ runPc = "cancelling"
    /\ AllExited
    /\ runPc' = "stopped"
    /\ UNCHANGED <<pipeline, stop_event, audio_queue_output, status>>
    /\ UNCHANGED <<micVars, spkVars, recvVars, toolVars, uiVars>>
    /\ UNCHANGED <<micStream, spkStream, error_occurred, stopCalls, stopRaised,
                   deviceError, recvRaised>>
    /\ UNCHANGED <<ghostVars, schedVars>>

\* SchedulerUI.handle_error, the slot of error_occurred: sets the label and
\* calls stop_agent, hence AgentWorker.stop (which changes nothing more
\* when stop_event is already set)
handle_error ==
    /\ pipeline = "gui"
    /\ error_occurred
    /\ ~stop_event
    /\ runPc # "stopped"
    /\ stop_event' = TRUE
    /\ stopRaised' = TRUE
    /\ UNCHANGED <<pipeline, audio_queue_output, status, runPc, micStream,
                   spkStream, error_occurred, stopCalls, deviceError,
                   recvRaised, uiVars>>
    /\ UNCHANGED <<micVars, spkVars, recvVars, toolVars>>
    /\ UNCHANGED <<ghostVars, schedVars>>

\* ------------------------------------------------------- specifications
\* the whole pipeline
Next ==
    \/ listen_mic_read
    \/ listen_mic_put
    \/ send_to_gemini_get
    \/ send_to_gemini_send
    \/ send_to_gemini_timeout
    \/ play_speaker_get
    \/ play_speaker_write
    \/ receive_response(Responses)
    \/ receive_dispatch
    \/ receive_handler_hangs
    \/ receive_send_tool_response
    \/ receive_error
    \/ receive_stopped
    \/ stop

Spec == Init /\ [][Next]_vars

\* the capture side: listen_mic and send_to_gemini around audio_queue_mic
NextCapture ==
    \/ listen_mic_read
    \/ listen_mic_put
    \/ send_to_gemini_get
    \/ send_to_gemini_send
    \/ send_to_gemini_timeout
    \/ stop

SpecCapture == Init /\ [][NextCapture]_vars

\* the playback side: receive_from_gemini (audio and interruptions) and
\* play_speaker around audio_queue_output
NextPlayback ==
    \/ play_speaker_get
    \/ play_speaker_write
    \/ receive_response(AudioResponses)
    \/ receive_error
    \/ receive_stopped
    \/ stop

SpecPlayback == Init /\ [][NextPlayback]_vars

\* both queues with their producers and consumers
NextAudio ==
    \/ listen_mic_read
    \/ listen_mic_put
    \/ send_to_gemini_get
    \/ send_to_gemini_send
    \/ send_to_gemini_timeout
    \/ play_speaker_get
    \/ play_speaker_write
    \/ receive_response(AudioResponses)
    \/ receive_error
    \/ receive_stopped
    \/ stop

SpecAudio == Init /\ [][NextAudio]_vars

\* the receive loop with its tool dispatch
NextTools ==
    \/ receive_response(ToolResponses)
    \/ receive_dispatch
    \/ receive_send_tool_response
    \/ receive_error
    \/ receive_stopped
    \/ stop

SpecTools == Init /\ [][NextTools]_vars

\* the responses of a turn that carries audio only, one part each
SessionResponses ==
    {rp \in AudioResponses : ~rp.interrupted /\ rp.parts = 1}

\* the steps each task takes once the event it awaits has happened
MicSteps ==
    \/ listen_mic_open
    \/ listen_mic_read
    \/ listen_mic_put
    \/ listen_mic_cancelled

SendSteps ==
    \/ send_to_gemini_get
    \/ send_to_gemini_send
    \/ send_to_gemini_timeout
    \/ send_to_gemini_cancelled

SpkSteps ==
    \/ play_speaker_open
    \/ play_speaker_get
    \/ play_speaker_write
    \/ play_speaker_cancelled

TaskSteps == MicSteps \/ SendSteps \/ SpkSteps \/ receive_cancelled

\* the steps of run_loop / run_agent and of the front end's error slot
RunSteps ==
    \/ run_finished
    \/ run_raised
    \/ run_agent_raised
    \/ run_agent_returns
    \/ handle_error

\* what the peer, the devices and the user do
Environment ==
    \/ connect_ok
    \/ connect_fail
    \/ listen_mic_open_fails
    \/ listen_mic_read_fails
    \/ play_speaker_open_fails
    \/ play_speaker_write_fails
    \/ receive_response(SessionResponses)
    \/ receive_error
    \/ receive_stopped
    \/ stop
    \/ cancel

\* a session from connect to its end
NextSession == TaskSteps \/ RunSteps \/ Environment

SpecSession == InitConnecting /\ [][NextSession]_vars

\* a session that the user does not end: what device and session failures
\* lead to by themselves
NextDevices ==
    \/ TaskSteps
    \/ run_finished
    \/ run_raised
    \/ run_agent_raised
    \/ handle_error
    \/ connect_ok
    \/ listen_mic_open_fails
    \/ listen_mic_read_fails
    \/ play_speaker_open_fails
    \/ play_speaker_write_fails
    \/ receive_response(SessionResponses)
    \/ receive_error

SpecDevices == InitConnecting /\ [][NextDevices]_vars

\* the responses with at most one function call
StatusResponses == {rp \in Responses : Len(rp.tool_call) <= 1}

\* what emits status_changed: run_loop, play_speaker and the tool dispatch
\* of receive_from_gemini
NextStatus ==
    \/ connect_ok
    \/ play_speaker_open
    \/ play_speaker_get
    \/ play_speaker_write
    \/ receive_response(StatusResponses)
    \/ receive_dispatch
    \/ receive_send_tool_response
    \/ receive_stopped
    \/ stop

SpecStatus == InitConnecting /\ [][NextStatus]_vars

\* the event loop resumes every task whose awaited event has happened, the
\* devices and the session complete the reads, writes and sends handed to
\* them, and the front end's event loop runs its queued slots; nothing is
\* assumed of the peer, of device failures or of the user
Fairness ==
    /\ WF_vars(MicSteps)
    /\ WF_vars(SendSteps)
    /\ WF_vars(SpkSteps)
    /\ WF_vars(receive_cancelled)
    /\ WF_vars(RunSteps)

\* an active session and its shutdown
NextShutdown ==
    \/ listen_mic_read
    \/ listen_mic_put
    \/ listen_mic_cancelled
    \/ send_to_gemini_get
    \/ send_to_gemini_send
    \/ send_to_gemini_timeout
    \/ send_to_gemini_cancelled
    \/ play_speaker_get
    \/ play_speaker_write
    \/ play_speaker_cancelled
    \/ receive_response(SessionResponses)
    \/ receive_error
    \/ receive_stopped
    \/ receive_cancelled
    \/ run_finished
    \/ run_agent_returns
    \/ handle_error
    \/ stop
    \/ cancel

SpecShutdown == Init /\ [][NextShutdown]_vars

FairShutdown == SpecShutdown /\ Fairness

\* the capture side of an active session and its shutdown
NextCaptureShutdown ==
    \/ listen_mic_read
    \/ listen_mic_put
    \/ listen_mic_cancelled
    \/ send_to_gemini_get
    \/ send_to_gemini_send
    \/ send_to_gemini_timeout
    \/ send_to_gemini_cancelled
    \/ play_speaker_cancelled
    \/ receive_cancelled
    \/ run_agent_returns
    \/ stop
    \/ cancel

FairCaptureShutdown == Init /\ [][NextCaptureShutdown]_vars /\ Fairness

\* tool dispatch next to the two audio queues
NextHandlers ==
    \/ listen_mic_read
    \/ listen_mic_put
    \/ send_to_gemini_get
    \/ send_to_gemini_send
    \/ play_speaker_get
    \/ play_speaker_write
    \/ receive_response(MixedResponses)
    \/ receive_dispatch
    \/ receive_handler_hangs
    \/ receive_send_tool_response

SpecHandlers == Init /\ [][NextHandlers]_vars

TypeOK ==
    /\ pipeline \in Pipelines
    /\ stop_event \in BOOLEAN
    /\ micPc \in {"idle", "open", "read", "put", "done", "raised", "cancelled"}
    /\ sendPc \in {"idle", "get", "send", "done", "cancelled"}
    /\ spkPc \in {"idle", "open", "get", "write", "done", "raised", "cancelled"}
    /\ recvPc \in {"idle", "recv", "dispatch", "hung", "sendtool", "done",
                  "cancelled"}
    /\ nRead \in 0..(MaxMicFrames + 1)
    /\ runPc \in {"connecting", "active", "cancelling", "stopped", "crashed"}
    /\ micStream \in {"none", "open", "closed"}
    /\ spkStream \in {"none", "open", "closed"}
    /\ stopCalls \in 0..MaxStops
    /\ respNo \in 0..MaxResponses
    /\ nChunks \in 0..MaxChunks
    /\ toolSends \in 0..1
    /\ skipped \in BOOLEAN /\ uncheckedBooking \in BOOLEAN
    /\ checkedFree \subseteq BookingStarts
    /\ request \in Requests \cup {NoRequest}
    /\ graphPc \in {"none", "idle", "check", "available",
                    "suggest_alternatives", "END", "returned"}
    /\ nCheck \in 0..1 /\ nSearch \in 0..1
    /\ Len(free_slots) <= MaxFreeSlots


\* ------------------------------------------------------------- tool calls
\* the for loop over function_calls is over and the send, if any, returned
BatchHandled == batch # <<>> /\ recvPc \in {"recv", "done"}

Ids(seq) == {seq[i].id : i \in 1..Len(seq)}

\* the function responses built for request i of the batch
ResponsesFor(i) ==
    {k \in 1..Len(function_responses) : function_responses[k].id = batch[i].id}

\* C1: every tool-call batch of N requests, whatever mix of registered,
\* unregistered, returning and raising handlers it holds, is answered by
\* exactly one send_tool_response call that carries N function responses
\* whose ids are one-to-one the ids of the requests.
C1_OneSendWithAllIds ==
    BatchHandled =>
        /\ toolSends = 1
        /\ Len(sentResponses) = Len(batch)
        /\ Ids(sentResponses) = Ids(batch)

\* C2: a request that names a tool with no entry in tools_map gets an error
\* result for its id in the batch sent back; it is never dropped.
C2_UnknownToolAnswered ==
    BatchHandled =>
        \A i \in 1..Len(batch) :
            batch[i].name \notin tools_map =>
                \E k \in 1..Len(sentResponses) :
                    /\ sentResponses[k].id = batch[i].id
                    /\ sentResponses[k].response.key = "error"

\* C3: a handler that raises becomes an error result carrying the message
\* for its request id; the for loop goes on with the remaining requests, the
\* batch is sent, and the receive loop ends only from its position at the
\* receive iteration, never from inside the dispatch.
C3_FaultState ==
    \A i \in 1..Len(outcomes) :
        outcomes[i].kind = "raise" =>
            /\ \E k \in ResponsesFor(i) :
                  function_responses[k].response =
                      [key |-> "error", value |-> outcomes[i].value]
            /\ recvPc = "dispatch" => idx = Len(outcomes) + 1 /\ idx <= Len(batch)
            /\ recvPc # "dispatch" =>
                  /\ Len(outcomes) = Len(batch)
                  /\ \/ recvPc = "sendtool"
                     \/ toolSends = 1 /\ sentResponses = function_responses

C3_HandlerFaultIsData ==
    /\ []C3_FaultState
    /\ [][recvPc' = "done" => recvPc \in {"recv", "done"}]_vars

\* a batch whose first handler raised was dispatched to its end and sent,
\* and the loop is back at the receive iteration
C3_Witness ==
    /\ Len(batch) = 2
    /\ Len(outcomes) = 2
    /\ outcomes[1].kind = "raise"
    /\ outcomes[2].kind = "return"
    /\ recvPc = "recv"
    /\ toolSends = 1
    /\ Len(sentResponses) = 2

\* C4: a dispatched request whose handler returned a value, also one of the
\* strings "Error: ...", "Booking failed: ..." or "Conflict with: ...", is
\* answered with {result: value}; {error: message} is sent if and only if
\* the handler raised.
C4_ResultUnlessRaised ==
    \A i \in 1..Len(outcomes) :
        batch[i].name \in tools_map =>
            /\ Cardinality(ResponsesFor(i)) = 1
            /\ \A k \in ResponsesFor(i) :
                  /\ function_responses[k].response.value = outcomes[i].value
                  /\ function_responses[k].response.key = "error"
                         <=> outcomes[i].kind = "raise"
                  /\ function_responses[k].response.key = "result"
                         <=> outcomes[i].kind = "return"

\* a failure string returned by book_meeting was sent as a result
C4_Witness ==
    /\ toolSends = 1
    /\ \E k \in 1..Len(sentResponses) :
          /\ sentResponses[k].name = "book_meeting"
          /\ sentResponses[k].response =
                [key |-> "result",
                 value |-> "Booking failed: credentials.json not found!"]
    /\ \E k \in 1..Len(sentResponses) :
          sentResponses[k].response.key = "error"


\* ----------------------------------------------------------- the queues
\* C5: in both pipelines, under any interleaving of listen_mic and
\* send_to_gemini, the capture queue holds at most its bound of 5 frames.
C5_CaptureQueueBounded == Len(audio_queue_mic) <= MicQueueMaxSize

\* a frame was read while the queue held its 5 frames
C5_Witness ==
    /\ Len(audio_queue_mic) = MicQueueMaxSize
    /\ nRead = MicQueueMaxSize + 1
    /\ sent = <<>>
    /\ sendPc = "get"

\* the frame send_to_gemini holds between get and send_realtime_input
InFlight == IF sendPc = "send" THEN <<sendFrame>> ELSE <<>>

\* the frame listen_mic holds while its put is suspended
Held == IF micPc = "put" THEN {micFrame} ELSE {}

\* C6: a frame read while the capture queue is full is enqueued once there
\* is room and never discarded: every frame read is sent, on its way to the
\* session, in the queue, or held by the suspended put.
C6_NoFrameDiscarded ==
    \A f \in 1..nRead :
        f \in Range(sent) \cup Range(InFlight) \cup Range(audio_queue_mic) \cup Held

\* s holds elements of t, in the order they have in t
Position(t, x) == CHOOSE k \in 1..Len(t) : t[k] = x

InOrderOf(s, t) ==
    /\ \A i \in 1..Len(s) : \E k \in 1..Len(t) : t[k] = s[i]
    /\ \A i, j \in 1..Len(s) : i < j => Position(t, s[i]) < Position(t, s[j])

\* C7: both queues are FIFO under any interleaving of producers, consumers
\* and drains: frames are sent in the order they were enqueued (frame k is
\* the k-th frame read, and frames are enqueued in the order read), and the
\* chunks written to the sink, followed by those still queued, are in the
\* order they were enqueued, also across a drain.
C7_BothQueuesFIFO ==
    /\ StrictlyIncreasing(sent \o InFlight \o audio_queue_mic)
    /\ InOrderOf(written \o audio_queue_output, enq)

\* frames were sent, and chunks written on both sides of a drain
C7_Witness ==
    /\ Len(sent) >= 2
    /\ Len(written) >= 2
    /\ drained # {}
    /\ written[1] <= lastDrain
    /\ written[Len(written)] > lastDrain
    /\ audio_queue_output # <<>>

\* the chunks put since the last drain that play_speaker has not taken
QueuedSinceDrain ==
    LET Kept(f) == f > lastDrain /\ f \notin Range(written)
    IN  SelectSeq(enq, Kept)

\* C8: after a drain the playback queue holds no chunk put before it and
\* loses none put after it: it is exactly the chunks put since the drain
\* that play_speaker has not taken; a put that directly follows the drain
\* leaves exactly the chunks put.
C8_DrainThenPut ==
    /\ [](audio_queue_output = QueuedSinceDrain)
    /\ [][(lastDrain = nChunks /\ nChunks' > nChunks) =>
             audio_queue_output' = [j \in 1..(nChunks' - nChunks) |-> nChunks + j]]_vars

\* chunks were discarded by a drain and the one chunk put next is queued
C8_Witness ==
    /\ drained # {}
    /\ nChunks = lastDrain + 1
    /\ audio_queue_output = <<nChunks>>
    /\ spkPc = "write"

\* the step that handles a response whose interrupted flag is set
HandledInterrupted ==
    /\ respNo' = respNo + 1
    /\ nChunks' = nChunks
    /\ batch' = <<>>

\* C9: handling an Interrupted event with k chunks queued leaves the
\* playback queue empty, and none of those k chunks is written afterwards.
C9_InterruptedEmptiesQueue ==
    /\ [][HandledInterrupted =>
             /\ audio_queue_output' = <<>>
             /\ Range(audio_queue_output) \subseteq drained']_vars
    /\ [](drained \cap Range(written) = {})

\* two queued chunks were discarded and a later chunk was written
C9_Witness ==
    /\ Cardinality(drained) >= 2
    /\ written # <<>>
    /\ written[Len(written)] > lastDrain

\* C10: the drain is complete before any later chunk is enqueued (every
\* queued chunk was received after the last handled interruption), and no
\* chunk received before an interruption begins to be written after that
\* interruption was handled.
C10_NoStaleAudio ==
    /\ [](\A k \in 1..Len(audio_queue_output) : audio_queue_output[k] > lastDrain)
    /\ [][written' # written => written'[Len(written')] > lastDrain]_vars

\* a chunk was being written when the interruption came, the queued ones
\* were discarded, and the next write is of a chunk received afterwards
C10_Witness ==
    /\ drained # {}
    /\ Len(written) >= 2
    /\ written[Len(written) - 1] < lastDrain
    /\ written[Len(written)] > lastDrain
    /\ spkPc = "write"

\* ------------------------------------------------------------------ status
\* C19: in the GUI worker every tool-call batch emits "processing", and once
\* the batch is handled (for loop over, send returned if there was one) the
\* status is "listening" again, whatever the batch held; the status never
\* stays at "processing" after the batch is handled.
C19_ProcessingEndsInListening ==
    (pipeline = "gui" /\ BatchHandled) => status = "listening"

\* ------------------------------------------------------- handler and audio
\* a tool handler is being run by receive_from_gemini
HandlerInProgress == recvPc \in {"dispatch", "hung"}

\* C11: while a tool handler invocation is in progress the playback and send
\* activities can still take their next step: a queued playback chunk can be
\* taken for writing and a queued captured frame can be taken for sending
\* (a handler that never returns is cut off, so it cannot hold them up).
C11_HandlerDoesNotStallAudio ==
    HandlerInProgress =>
        /\ (spkPc = "get" /\ audio_queue_output # <<>>) => ENABLED play_speaker_get
        /\ (sendPc = "get" /\ audio_queue_mic # <<>>) => ENABLED send_to_gemini_get

\* ---------------------------------------------------------------- shutdown
\* stop was requested: AgentWorker.stop was called, or run_agent cancelled
StopRequested ==
    \/ pipeline = "gui" /\ stop_event
    \/ pipeline = "cli" /\ runPc = "cancelling"

\* C12: after stop is requested on an active session each of the four
\* activities eventually exits, whatever it was suspended in, and the
\* session eventually reaches Stopped (the GUI worker emits finished).
C12_StopReleasesEveryActivity ==
    StopRequested ~> (AllExited /\ runPc = "stopped")

\* C13: when stop is requested while the capture queue is full and
\* listen_mic is suspended in put (or, in ui.py, about to skip the put), the
\* capture activity eventually exits and has closed its input stream.
C13_FullQueueCaptureExits ==
    (StopRequested /\ full(audio_queue_mic) /\ micPc \in {"read", "put"})
        ~> (micPc = "done" /\ micStream = "closed")

\* listen_mic was cancelled while suspended in put on the full queue, and
\* has closed its stream
C13_Witness ==
    /\ runPc \in {"cancelling", "stopped"}
    /\ micPc = "done" /\ micFrame # 0 /\ micStream = "closed"
    /\ full(audio_queue_mic)

\* no task is still pending: each has ended or was never created
NoTaskPending ==
    /\ micPc \in {"idle", "done", "raised", "cancelled"}
    /\ sendPc \in {"idle", "done", "cancelled"}
    /\ spkPc \in {"idle", "done", "raised", "cancelled"}
    /\ recvPc \in {"idle", "done", "cancelled"}

\* C14: Stopped (run_loop / run_agent has ended; the GUI worker has emitted
\* finished) is reached only when the four activities have exited and have
\* run their cleanup: in no reachable state is the session Stopped while a
\* task is still pending or a device stream is still open.
C14_StoppedOnlyAfterCleanup ==
    runPc = "stopped" =>
        NoTaskPending /\ micStream # "open" /\ spkStream # "open"

\* C15: a second call of stop on the same session raises no error.
C15_SecondStopIsSafe == stopCalls >= 2 => ~stopRaised

\* C16: when iterating the session's receive stream raises, the session
\* ends: the receive loop terminates, the capture, send and playback
\* activities stop as well and Stopped is eventually reached.
C16_ReceiveFailureEndsSession ==
    recvRaised ~> (AllExited /\ runPc = "stopped")

\* C17: when the connection cannot be established no activity is started,
\* the run ends in Stopped and the error is surfaced (the GUI worker emits
\* an error and finishes).
C17_ConnectFailureSurfaced ==
    (runPc # "connecting" /\ micPc = "idle") =>
        (runPc = "stopped" /\ error_occurred)

\* C18: a capture or playback device failure (open, read or write) reaches
\* the front end as an error once the failing task and gather have dealt
\* with it; the session is not left running without a report of it.
C18_DeviceFailureSurfaced ==
    (deviceError /\ ~(SomeRaised /\ Running)) => error_occurred

\* ------------------------------------------------------ playback status
\* C20 as claimed: "speaking" is emitted when audio is enqueued, so whenever
\* the last emitted status is the "listening" of play_speaker the playback
\* queue is empty.
C20_ListeningMeansQueueEmpty ==
    (pipeline = "gui" /\ statusBy = "play" /\ status = "listening")
        => audio_queue_output = <<>>

C20_StatusState ==
    /\ runPc = "connecting" => status = "none"
    /\ spkPc = "write" => spkStatus = "speaking"
    /\ (spkPc = "get" /\ written # <<>>) => spkStatus = "listening"

C20_StatusStep ==
    /\ (status = "none" /\ status' # "none")
           => (status' = "listening" /\ statusBy' = "run")
    /\ Len(written') > Len(written) => spkStatus' = "speaking"
    /\ (spkStatus' = "listening" /\ spkStatus # "listening")
           => audio_queue_output' = <<>>

\* C20 as amended: "listening" is the first status emitted, at session
\* establishment; play_speaker emits "speaking" when it takes a chunk from
\* the playback queue to write it, and "listening" only when it finds the
\* queue empty after a write; so while a chunk is being written the last
\* status emitted by play_speaker is "speaking", and while play_speaker is
\* suspended in get after a write it is "listening".
C20_StatusFollowsPlayback ==
    /\ [](pipeline = "gui" => C20_StatusState)
    /\ [][pipeline = "gui" => C20_StatusStep]_vars

\* a second chunk is being written after play_speaker had gone back to
\* "listening", while the tool dispatch has emitted "processing" since
C20_Witness ==
    /\ pipeline = "gui"
    /\ spkPc = "write" /\ Len(written) >= 2
    /\ spkStatus = "speaking" /\ status = "processing"

\* ------------------------------------------------- the scheduling tools
\* a tool is called with some arguments against some calendar
InitScheduler ==
    /\ SessionNotStarted
    /\ request \in Requests
    /\ graphPc = "idle"
    /\ state_status = "" /\ final_response = ""
    /\ nCheck = 0 /\ nSearch = 0
    /\ free_slots = <<>> /\ alternatives = ""

NextScheduler ==
    \/ smart_check_availability
    \/ check_availability_node
    \/ handle_available_node
    \/ find_alternative_node

SpecScheduler == InitScheduler /\ [][NextScheduler]_vars

NextSlots == find_nearest_slots

SpecSlots == InitScheduler /\ [][NextSlots]_vars

\* the requested slot overlaps an event of the calendar
SlotConflicts(req) ==
    /\ req.service_ok
    /\ ParsesIso(req.start_iso)
    /\ EventsBetween(req.events, fromisoformat(req.start_iso),
                     fromisoformat(req.start_iso) + req.duration) # {}

\* C21: smart_check_availability calls the slot check exactly once; it
\* returns "Available" iff the check returned exactly "Available", and then
\* the nearest-slot search is not called; for every other check result the
\* search is called exactly once and its string is what comes back after
\* the "Busy. Alternatives: " prefix.
C21_CheckOnceThenRoute ==
    /\ nCheck <= 1 /\ nSearch <= nCheck
    /\ graphPc = "END" =>
          /\ nCheck = 1
          /\ state_status \in tools_check_specific_slot(request)
          /\ (final_response = "Available") <=> (state_status = "Available")
          /\ state_status = "Available" => nSearch = 0
          /\ state_status # "Available" =>
                /\ nSearch = 1
                /\ alternatives = tools_find_nearest_slots(request)
                /\ final_response = "Busy. Alternatives: " \o alternatives

C21_Witness ==
    /\ graphPc = "END"
    /\ state_status = "Conflict with: Standup"
    /\ nSearch = 1

\* C22: when the requested slot conflicts with an event,
\* smart_check_availability returns "Busy. Alternatives: " followed directly
\* by the comma-separated ISO timestamps the search found, nothing between.
C22_BusyFollowedByTimestamps ==
    (graphPc = "END" /\ SlotConflicts(request)) =>
        final_response =
            "Busy. Alternatives: "
                \o Join([i \in 1..Len(free_slots) |-> isoformat(free_slots[i])],
                        ", ")

\* C23: find_nearest_slots returns at most 3 slots; each starts no earlier
\* than the search start, and its whole interval ends no later than the end
\* of the 48-hour window and no later than 18:00 of its day, starting no
\* earlier than 09:00; with no slot found it reports that none was found.
C23_SlotsInWindowAndBusinessHours ==
    (graphPc = "returned" /\ request.service_ok /\ ParsesIso(request.start_iso))
    => LET start_dt == fromisoformat(request.start_iso)
       IN /\ Len(free_slots) <= MaxFreeSlots
          /\ \A i \in 1..Len(free_slots) :
                /\ free_slots[i] >= start_dt
                /\ free_slots[i] + request.duration
                       <= start_dt + SearchWindowHours * 60
                /\ (free_slots[i] % 1440) >= BusinessOpenHour * 60
                /\ (free_slots[i] % 1440) + request.duration
                       <= BusinessCloseHour * 60
          /\ free_slots = <<>> =>
                alternatives = "No free slots found in next 48 hours."

\* C24: within one turn, whichever of an audio chunk and a tool-call batch
\* arrives first, in separate responses or in the same one, both are
\* handled: every audio chunk received so far has been put on the playback
\* queue in arrival order, and the batch has been dispatched and answered
\* for every one of its requests.
C24_AudioAndBatchBothHandled ==
    (BatchHandled /\ nChunks > 0) =>
        /\ enq = [i \in 1..nChunks |-> i]
        /\ Len(outcomes) = Len(batch)
        /\ toolSends = 1
        /\ \A i \in 1..Len(batch) :
              \E k \in 1..Len(sentResponses) :
                  sentResponses[k].id = batch[i].id

NoDuplicates(seq) ==
    \A i, j \in 1..Len(seq) : i # j => seq[i] # seq[j]

\* C25: every audio frame is consumed exactly once: a captured frame is sent
\* at most once and is never both sent and still queued; a playback chunk
\* that was enqueued is still queued, or was written once, or was discarded
\* by one drain (a drain discards only chunks that are on the queue), and
\* never two of these.
C25_State ==
    /\ NoDuplicates(sent \o audio_queue_mic)
    /\ NoDuplicates(written \o audio_queue_output)
    /\ Range(written) \cap drained = {}
    /\ Range(audio_queue_output) \cap drained = {}
    /\ Range(enq) = Range(audio_queue_output) \cup Range(written) \cup drained

C25_Step ==
    /\ (drained' \ drained) \subseteq Range(audio_queue_output)
    /\ \A k \in 1..Len(written) : written'[k] = written[k]
    /\ \A k \in 1..Len(sent) : sent'[k] = sent[k]

C25_ConsumedExactlyOnce == []C25_State /\ [][C25_Step]_vars

\* frames were sent; one chunk was written, a later one discarded by a drain
\* and one received after the drain written
C25_Witness ==
    /\ Len(sent) >= 2
    /\ Len(written) >= 2
    /\ \E c \in drained : written[1] < c /\ c < written[Len(written)]
    /\ audio_queue_mic # <<>>

\* the engine asks for slot checks and bookings, one call per response
NextBooking ==
    \/ receive_response(BookingResponses)
    \/ receive_dispatch
    \/ receive_send_tool_response

SpecBooking == Init /\ [][NextBooking]_vars

\* C26: availability is checked before every booking: the book_meeting
\* handler runs for a start time only after a smart_check_availability or
\* check_specific_slot call for that exact start time returned "Available".
C26_BookingOnlyAfterCheck == ~uncheckedBooking

\* the responses that carry one audio part or the interrupted flag
FlowResponses == {rp \in AudioResponses : rp.parts <= 1}

\* the four activities of an active session, no stop request and no error
NextFlow ==
    \/ listen_mic_read
    \/ listen_mic_put
    \/ send_to_gemini_get
    \/ send_to_gemini_send
    \/ play_speaker_get
    \/ play_speaker_write
    \/ receive_response(FlowResponses)

FairFlow == Init /\ [][NextFlow]_vars /\ Fairness

\* C27: under fair scheduling of the four activities, with no stop request
\* and no error, every frame on the capture queue is eventually sent to the
\* session, and every chunk on the playback queue is eventually written to
\* the sink unless an interruption drains it.
C27_QueuedIsEventuallyConsumed ==
    /\ \A f \in 1..(MaxMicFrames + 1) :
          (f \in Range(audio_queue_mic)) ~> (f \in Range(sent))
    /\ \A c \in 1..MaxChunks :
          (c \in Range(audio_queue_output))
              ~> (c \in Range(written) \/ c \in drained)

\* every queued frame has been sent, and of the chunks some were written and
\* some drained
C27_Witness ==
    /\ Len(sent) >= 3
    /\ audio_queue_mic = <<>> /\ sendPc = "get"
    /\ written # <<>> /\ drained # {}
    /\ audio_queue_output = <<>> /\ spkPc = "get"

\* tool-call batches whose handlers return or raise and whose result send
\* succeeds or fails
NextDispatch ==
    \/ receive_response(ToolResponses)
    \/ receive_dispatch
    \/ receive_send_tool_response
    \/ receive_send_tool_response_fails

SpecDispatch == Init /\ [][NextDispatch]_vars

\* C28: the registered handler of every request received is invoked exactly
\* once, in batch order: the invocations made for the batch are one per
\* request handled so far, each of the handler registered under the
\* request's name and none for an unregistered name; a step invokes at most
\* the next request's handler, and after a raise, a sent batch or a failed
\* send no handler of the batch is invoked again.
C28_State ==
    /\ Len(outcomes) <= Len(batch)
    /\ recvPc = "dispatch" => Len(outcomes) = idx - 1
    /\ recvPc \in {"sendtool", "done"} /\ batch # <<>> =>
           Len(outcomes) = Len(batch)
    /\ \A i \in 1..Len(outcomes) :
          IF batch[i].name \in tools_map
          THEN outcomes[i] \in HandlerOutcomes(batch[i].name)
          ELSE outcomes[i] = NoOutcome

C28_Step ==
    \/ outcomes' = outcomes
    \/ /\ recvPc = "dispatch"
       /\ batch' = batch
       /\ Len(outcomes') = Len(outcomes) + 1
       /\ \A i \in 1..Len(outcomes) : outcomes'[i] = outcomes[i]
    \/ /\ recvPc = "recv"
       /\ respNo' = respNo + 1
       /\ outcomes' = <<>>

C28_HandlerInvokedOnce == []C28_State /\ [][C28_Step]_vars

\* a batch of two requests whose first handler raised was handled to its
\* end and the send of its results failed
C28_Witness ==
    /\ recvPc = "done" /\ recvRaised
    /\ Len(batch) = 2 /\ Len(outcomes) = 2
    /\ outcomes[1].kind = "raise"
    /\ batch[2].name = "book_meeting" /\ outcomes[2].kind = "return"
    /\ toolSends = 0

\* C29: a response that carries the interrupted flag is handled as an
\* interruption only: the step that handles it empties the playback queue
\* and enqueues nothing, and while it is the last response handled no batch
\* is dispatched and no result is sent; a result that is sent always answers
\* a request of the batch of the response being handled.
C29_State ==
    /\ skipped =>
          /\ batch = <<>> /\ function_responses = <<>>
          /\ recvPc \in {"recv", "done"}
          /\ toolSends = 0 /\ sentResponses = <<>>
          /\ audio_queue_output = <<>>
          /\ Len(enq) = lastDrain
    /\ Ids(sentResponses) \subseteq Ids(batch)
    /\ \A i \in 1..Len(batch) : batch[i].id = CallId(respNo, i)

C29_Step ==
    (skipped' /\ respNo' # respNo) =>
        /\ enq' = enq
        /\ audio_queue_output' = <<>>
        /\ Range(audio_queue_output) \subseteq drained'

C29_InterruptedIsInterruptionOnly == []C29_State /\ [][C29_Step]_vars

\* an interrupted response that carried audio parts or a tool_call was
\* handled while a chunk was queued and after another had been written
C29_Witness ==
    /\ skipped
    /\ drained # {}
    /\ written # <<>>

\* C30: the command-line pipeline and the GUI pipeline are the same
\* pipeline: with no stop request, for the captured frames 1, 2, 3, ... the
\* frames handed to the session are, in either pipeline, what main.py hands
\* to it: once the capture queue has been emptied and no frame is on its
\* way, the frames sent are all the frames captured, in order.
C30_SentAsCommandLineSends ==
    (~stop_event /\ audio_queue_mic = <<>> /\ InFlight = <<>> /\ Held = {}) =>
        sent = [i \in 1..nRead |-> i]

\* the timed events of the search window that begins at start_dt
TimedEventsOfWindow(req, start_dt) ==
    {e \in req.events :
        /\ ~e.all_day
        /\ e.end > start_dt
        /\ e.start < start_dt + SearchWindowHours * 60}

\* C31: every slot returned by find_nearest_slots is free: its interval
\* [start, start + duration) overlaps no timed event of the search window;
\* the returned slots are strictly increasing in time, each a whole multiple
\* of 30 minutes after the search start, and they are the timestamps the
\* returned string lists.
C31_ReturnedSlotsAreFree ==
    (graphPc = "returned" /\ request.service_ok /\ ParsesIso(request.start_iso))
    => LET start_dt == fromisoformat(request.start_iso)
       IN /\ \A i \in 1..Len(free_slots) :
                /\ \A e \in TimedEventsOfWindow(request, start_dt) :
                      \/ free_slots[i] + request.duration <= e.start
                      \/ free_slots[i] >= e.end
                /\ free_slots[i] >= start_dt
                /\ (free_slots[i] - start_dt) % SlotStepMinutes = 0
          /\ StrictlyIncreasing(free_slots)
          /\ free_slots # <<>> =>
                alternatives =
                    "Available slots: "
                        \o Join([i \in 1..Len(free_slots) |->
                                    isoformat(free_slots[i])], ", ")

\* three slots were returned, the first of them after an event that covers
\* the search start
C31_Witness ==
    /\ graphPc = "returned"
    /\ Len(free_slots) = MaxFreeSlots
    /\ \E e \in request.events :
          /\ ~e.all_day
          /\ e.start <= fromisoformat(request.start_iso)
          /\ fromisoformat(request.start_iso) < e.end
          /\ free_slots[1] >= e.end

====
